---- MODULE Spec2Model ----
(***************************************************************************)
(* diesel_load_extension: the guarded enable / load / disable lifecycle of *)
(* SqliteLoadExtensionExt (src/src/lib.rs) over the three native entry     *)
(* points declared in src/src/ffi.rs.                                      *)
(*                                                                         *)
(* Every public operation borrows the connection mutably and runs to       *)
(* completion on the caller's thread, so one call is one action.  What a   *)
(* call did is kept in history variables: the native calls it made, in     *)
(* order (trace), the value it returned or the panic it unwound with       *)
(* (result), and what it was given (call).  The engine is a black box: its *)
(* status codes are drawn from a script chosen with the call.              *)
(***************************************************************************)
EXTENDS Integers, Sequences, FiniteSets, TLC

VARIABLES
    target,   \* "native" | "wasm": the cfg the crate was compiled for
    db,       \* per connection: the engine's connection-local state
    pc,       \* "idle": the caller is between calls; "done": a call has just ended
    call,     \* the call that has just ended: operation, connection, arguments, engine script
    trace,    \* the native calls made by that call, in order
    result,   \* what that call returned (Ok / Err) or unwound with (Panic)
    prev,     \* stage and tag of the last error load_extension(s) handed the caller before this call
    last,     \* the toggle the call before this one made, when it was a successful enable_load_extension
    once,     \* wasm: state of the static INIT: OnceLock<()> of register_auto_extension
    auto,     \* wasm: the calls of sqlite3_auto_extension made in this process, in order
    tpc,      \* wasm: per thread, where it is inside register_auto_extension
    arg       \* wasm: per thread, the initializer its current call was given

callVars == <<target, db, pc, call, trace, result, prev, last>>
autoVars == <<once, auto, tpc, arg>>
vars == <<target, db, pc, call, trace, result, prev, last, once, auto, tpc, arg>>

-----------------------------------------------------------------------------
(* Bounds of the model *)

\* longest batch handed to load_extensions
MaxBatch == 2
\* most extensions registered on one connection
MaxLoaded == 2
\* threads calling register_auto_extension
MaxThreads == 2

-----------------------------------------------------------------------------
(* Program constants *)

SQLITE_OK == 0
SQLITE_ERROR == 1

Targets == {"native", "wasm"}

\* the two handles of test_multiple_connections_are_independent
Conns == {"conn1", "conn2"}

\* a null pointer / an absent C string; every CString ends with NUL, so none is empty
NULL == <<>>

-----------------------------------------------------------------------------
(* Inputs: Rust strings are sequences of bytes *)

None == [some |-> FALSE, s |-> <<>>]
Some(s) == [some |-> TRUE, s |-> s]

\* "a", "b", and a path with an interior NUL
PathA == <<97>>
PathB == <<98>>
PathNul == <<97, 0, 98>>
\* "i", and an entry point with an interior NUL
EntryInit == <<105>>
EntryNul == <<105, 0>>

Req(p, e) == [path |-> p, entry |-> e]

Requests ==
    { Req(PathA, None), Req(PathB, Some(EntryInit)),
      Req(PathNul, None), Req(PathA, Some(EntryNul)), Req(PathNul, Some(EntryNul)) }

Batches == UNION { [1..n -> Requests] : n \in 0..MaxBatch }

-----------------------------------------------------------------------------
(* Results *)

Ok == [kind |-> "Ok", err |-> "", msg |-> <<>>]
Err(tag, msg) == [kind |-> "Err", err |-> tag, msg |-> msg]
Panic(payload) == [kind |-> "Panic", err |-> "", msg |-> payload]

\* LoadExtensionError
LoadExtensionError ==
    {"EnableFailed", "LoadFailed", "InvalidPath", "InvalidEntryPoint", "UnsupportedPlatform"}

\* CString::new: fails on any NUL byte, else appends the terminator
CStringNew(s) ==
    IF \E i \in 1..Len(s) : s[i] = 0
    THEN [ok |-> FALSE, c |-> NULL]
    ELSE [ok |-> TRUE, c |-> Append(s, 0)]

\* CStr::from_ptr(p).to_string_lossy().into_owned(): the bytes before the
\* terminator, each byte that is not valid UTF-8 replaced by U+FFFD
ToStringLossy(buf) ==
    [i \in 1..(Len(buf) - 1) |-> IF buf[i] < 128 THEN buf[i] ELSE 65533]

-----------------------------------------------------------------------------
(* The engine (black box): connection-local state and the native entry points *)

\* texts the engine reports (C strings)
TextNotAnError == <<110, 0>>
TextMisuse == <<109, 0>>
TextGeneric == <<103, 0>>
TextNotAuthorized == <<117, 0>>
\* the message the engine allocates for a failed load names the file;
\* its first byte is not valid UTF-8
TextCannotOpen(file) == <<255>> \o file

\* a freshly established connection: extension loading is disabled
NewConnection == [flag |-> FALSE, loaded |-> <<>>, errmsg |-> TextNotAnError]

\* status of one toggle call
ToggleResponses == {SQLITE_OK, SQLITE_ERROR}
\* what one load step meets: the engine loads the library, fails and writes a
\* message, fails and writes none, or the step panics before reaching the engine
LoadResponses == {"ok", "err_msg", "err_null", "panic"}

\* the connection during one call: engine state, the native calls made so
\* far, and the engine responses still to come
World(d, tog, lds) ==
    [flag |-> d.flag, loaded |-> d.loaded, errmsg |-> d.errmsg,
     trace |-> <<>>, toggles |-> tog, loads |-> lds]

EngineState(w) == [flag |-> w.flag, loaded |-> w.loaded, errmsg |-> w.errmsg]

NativeCall(fn, onoff, file, entry, rc, out) ==
    [fn |-> fn, onoff |-> onoff, file |-> file, entry |-> entry, rc |-> rc, out |-> out]

Pop(s) == IF s = <<>> THEN <<>> ELSE Tail(s)

\* int sqlite3_enable_load_extension(sqlite3 *db, int onoff)
sqlite3_enable_load_extension(w, onoff) ==
    LET rc == IF w.toggles = <<>> THEN SQLITE_OK ELSE Head(w.toggles)
    IN  [w |-> [w EXCEPT
                  !.flag = IF rc = SQLITE_OK THEN onoff # 0 ELSE @,
                  !.errmsg = IF rc = SQLITE_OK THEN @ ELSE TextMisuse,
                  !.trace = Append(@, NativeCall("sqlite3_enable_load_extension",
                                                 onoff, NULL, NULL, rc, NULL)),
                  !.toggles = Pop(@)],
         rc |-> rc]

\* const char *sqlite3_errmsg(sqlite3 *db): never null
sqlite3_errmsg(w) ==
    [w |-> [w EXCEPT !.trace = Append(@, NativeCall("sqlite3_errmsg",
                                                    -1, NULL, NULL, SQLITE_OK, w.errmsg))],
     text |-> w.errmsg]

\* void sqlite3_free(void *)
sqlite3_free(w, ptr) ==
    [w EXCEPT !.trace = Append(@, NativeCall("sqlite3_free", -1, NULL, NULL, SQLITE_OK, ptr))]

\* int sqlite3_load_extension(sqlite3 *db, const char *file, const char *entry, char **err_msg)
\* With the flag disabled the engine refuses with a "not authorized" message.
sqlite3_load_extension(w, file, entry) ==
    LET r == IF w.loads = <<>> THEN "ok" ELSE Head(w.loads)
        rc == IF w.flag /\ r = "ok" THEN SQLITE_OK ELSE SQLITE_ERROR
        err_msg == IF ~w.flag THEN TextNotAuthorized
                   ELSE IF r = "err_msg" THEN TextCannotOpen(file)
                   ELSE NULL
    IN  [w |-> [w EXCEPT
                  !.loaded = IF rc = SQLITE_OK
                             THEN Append(@, [file |-> file, entry |-> entry]) ELSE @,
                  !.errmsg = IF rc = SQLITE_OK THEN @ ELSE TextGeneric,
                  !.trace = Append(@, NativeCall("sqlite3_load_extension",
                                                 -1, file, entry, rc, err_msg)),
                  !.loads = Pop(@)],
         rc |-> rc,
         err_msg |-> err_msg]

-----------------------------------------------------------------------------
(* validate_inputs *)

\* mutant: the entry point of a request is converted before its path
Mut_ValidateOne_EntryFirst(ext) ==
    LET c_path == CStringNew(ext.path)
        c_entry == CStringNew(ext.entry.s)
    IN  IF ext.entry.some /\ ~c_entry.ok
        THEN [res |-> Err("InvalidEntryPoint", <<>>), c |-> <<>>]
        ELSE IF ~c_path.ok THEN [res |-> Err("InvalidPath", <<>>), c |-> <<>>]
        ELSE [res |-> Ok,
              c |-> <<[path |-> c_path.c,
                       entry |-> IF ext.entry.some THEN Some(c_entry.c) ELSE None]>>]

\* one element of the map closure: the path first, then the entry point
ValidateOne(ext) ==
    LET c_path == CStringNew(ext.path)
        c_entry == CStringNew(ext.entry.s)
    IN  IF ~c_path.ok THEN [res |-> Err("InvalidPath", <<>>), c |-> <<>>]
        ELSE IF ext.entry.some /\ ~c_entry.ok
             THEN [res |-> Err("InvalidEntryPoint", <<>>), c |-> <<>>]
        ELSE [res |-> Ok,
              c |-> <<[path |-> c_path.c,
                       entry |-> IF ext.entry.some THEN Some(c_entry.c) ELSE None]>>]

\* collect() into a Result: stops at the first element that fails
RECURSIVE ValidateFrom(_, _, _)
ValidateFrom(extensions, i, acc) ==
    IF i > Len(extensions) THEN [res |-> Ok, c |-> acc]
    ELSE LET v == ValidateOne(extensions[i])
         IN  IF v.res.kind = "Err" THEN [res |-> v.res, c |-> <<>>]
             ELSE ValidateFrom(extensions, i + 1, acc \o v.c)

\* mutant: only the first request is converted before acting
Mut_validate_inputs_FirstOnly(extensions) ==
    ValidateFrom(IF extensions = <<>> THEN <<>> ELSE <<extensions[1]>>, 1, <<>>)

validate_inputs(extensions) == ValidateFrom(extensions, 1, <<>>)

-----------------------------------------------------------------------------
(* native_impl *)

\* mutant: a toggle to the state the connection is already in is refused
Mut_enable_load_extension_RejectRedundant(w, enabled) ==
    IF w.flag = enabled
    THEN [w |-> w, res |-> Err("EnableFailed", <<>>)]
    ELSE LET t == sqlite3_enable_load_extension(w, IF enabled THEN 1 ELSE 0)
         IN  IF t.rc # SQLITE_OK
             THEN LET m == sqlite3_errmsg(t.w)
                  IN  [w |-> m.w, res |-> Err("EnableFailed", ToStringLossy(m.text))]
             ELSE [w |-> t.w, res |-> Ok]

\* mutant: the flag handed to the engine does not follow `enabled`
Mut_enable_load_extension_AlwaysOn(w, enabled) ==
    LET t == sqlite3_enable_load_extension(w, 1)
    IN  IF t.rc # SQLITE_OK
        THEN LET m == sqlite3_errmsg(t.w)
             IN  [w |-> m.w, res |-> Err("EnableFailed", ToStringLossy(m.text))]
        ELSE [w |-> t.w, res |-> Ok]

\* SqliteLoadExtensionExt::enable_load_extension
enable_load_extension(w, enabled) ==
    LET onoff == IF enabled THEN 1 ELSE 0
        t == sqlite3_enable_load_extension(w, onoff)
    IN  IF t.rc # SQLITE_OK
        THEN LET m == sqlite3_errmsg(t.w)
             IN  [w |-> m.w, res |-> Err("EnableFailed", ToStringLossy(m.text))]
        ELSE [w |-> t.w, res |-> Ok]

\* mutant: a failed load is reported under the toggle's tag
Mut_raw_load_extension_ToggleTag(w, c_path, c_entry) ==
    IF w.loads # <<>> /\ Head(w.loads) = "panic"
    THEN [w |-> [w EXCEPT !.loads = Pop(@)], res |-> Panic(c_path)]
    ELSE
    LET entry_ptr == IF c_entry.some THEN c_entry.s ELSE NULL
        l == sqlite3_load_extension(w, c_path, entry_ptr)
    IN  IF l.rc # SQLITE_OK
        THEN IF l.err_msg = NULL
             THEN LET m == sqlite3_errmsg(l.w)
                  IN  [w |-> m.w, res |-> Err("EnableFailed", ToStringLossy(m.text))]
             ELSE [w |-> sqlite3_free(l.w, l.err_msg),
                   res |-> Err("EnableFailed", ToStringLossy(l.err_msg))]
        ELSE [w |-> l.w, res |-> Ok]

\* mutant: the load call is wrapped in an enable and a disable of its own
Mut_raw_load_extension_Managed(w, c_path, c_entry) ==
    IF w.loads # <<>> /\ Head(w.loads) = "panic"
    THEN [w |-> [w EXCEPT !.loads = Pop(@)], res |-> Panic(c_path)]
    ELSE
    LET entry_ptr == IF c_entry.some THEN c_entry.s ELSE NULL
        e == sqlite3_enable_load_extension(w, 1)
        l == sqlite3_load_extension(e.w, c_path, entry_ptr)
    IN  IF l.rc # SQLITE_OK
        THEN IF l.err_msg = NULL
             THEN LET m == sqlite3_errmsg(l.w)
                  IN  [w |-> sqlite3_enable_load_extension(m.w, 0).w,
                       res |-> Err("LoadFailed", ToStringLossy(m.text))]
             ELSE [w |-> sqlite3_enable_load_extension(sqlite3_free(l.w, l.err_msg), 0).w,
                   res |-> Err("LoadFailed", ToStringLossy(l.err_msg))]
        ELSE [w |-> sqlite3_enable_load_extension(l.w, 0).w, res |-> Ok]

\* mutant: the message the engine allocated is copied but never released
Mut_raw_load_extension_NoFree(w, c_path, c_entry) ==
    IF w.loads # <<>> /\ Head(w.loads) = "panic"
    THEN [w |-> [w EXCEPT !.loads = Pop(@)], res |-> Panic(c_path)]
    ELSE
    LET entry_ptr == IF c_entry.some THEN c_entry.s ELSE NULL
        l == sqlite3_load_extension(w, c_path, entry_ptr)
    IN  IF l.rc # SQLITE_OK
        THEN IF l.err_msg = NULL
             THEN LET m == sqlite3_errmsg(l.w)
                  IN  [w |-> m.w, res |-> Err("LoadFailed", ToStringLossy(m.text))]
             ELSE [w |-> l.w, res |-> Err("LoadFailed", ToStringLossy(l.err_msg))]
        ELSE [w |-> l.w, res |-> Ok]

\* mutant: a failed load always reports the connection's last-error text
Mut_raw_load_extension_AlwaysErrmsg(w, c_path, c_entry) ==
    IF w.loads # <<>> /\ Head(w.loads) = "panic"
    THEN [w |-> [w EXCEPT !.loads = Pop(@)], res |-> Panic(c_path)]
    ELSE
    LET entry_ptr == IF c_entry.some THEN c_entry.s ELSE NULL
        l == sqlite3_load_extension(w, c_path, entry_ptr)
    IN  IF l.rc # SQLITE_OK
        THEN LET m == sqlite3_errmsg(l.w)
                 f == IF l.err_msg = NULL THEN m.w ELSE sqlite3_free(m.w, l.err_msg)
             IN  [w |-> f, res |-> Err("LoadFailed", ToStringLossy(m.text))]
        ELSE [w |-> l.w, res |-> Ok]

\* raw_load_extension: the load call alone, without enable/disable management
raw_load_extension(w, c_path, c_entry) ==
    IF w.loads # <<>> /\ Head(w.loads) = "panic"
    THEN [w |-> [w EXCEPT !.loads = Pop(@)], res |-> Panic(c_path)]
    ELSE
    LET entry_ptr == IF c_entry.some THEN c_entry.s ELSE NULL
        l == sqlite3_load_extension(w, c_path, entry_ptr)
    IN  IF l.rc # SQLITE_OK
        THEN IF l.err_msg = NULL
             THEN LET m == sqlite3_errmsg(l.w)
                  IN  [w |-> m.w, res |-> Err("LoadFailed", ToStringLossy(m.text))]
             ELSE [w |-> sqlite3_free(l.w, l.err_msg),
                   res |-> Err("LoadFailed", ToStringLossy(l.err_msg))]
        ELSE [w |-> l.w, res |-> Ok]

\* mutant: the loop goes on after a failed load and reports the first error at the end
RECURSIVE Mut_LoadLoop_Continue(_, _, _)
Mut_LoadLoop_Continue(w, c_extensions, i) ==
    IF i > Len(c_extensions) THEN [w |-> w, res |-> Ok]
    ELSE LET r == raw_load_extension(w, c_extensions[i].path, c_extensions[i].entry)
         IN  IF r.res.kind = "Panic" THEN r
             ELSE LET rest == Mut_LoadLoop_Continue(r.w, c_extensions, i + 1)
                  IN  IF r.res.kind = "Err" /\ rest.res.kind # "Panic"
                      THEN [w |-> rest.w, res |-> r.res]
                      ELSE rest

\* mutant: when a load fails, the extensions this call loaded before it are unregistered
RECURSIVE Mut_LoadLoop_Rollback(_, _, _)
Mut_LoadLoop_Rollback(w, c_extensions, i) ==
    IF i > Len(c_extensions) THEN [w |-> w, res |-> Ok]
    ELSE LET r == raw_load_extension(w, c_extensions[i].path, c_extensions[i].entry)
         IN  IF r.res.kind = "Err"
             THEN [w |-> [r.w EXCEPT !.loaded = SubSeq(@, 1, Len(@) - (i - 1))],
                   res |-> r.res]
             ELSE IF r.res.kind # "Ok" THEN r
             ELSE Mut_LoadLoop_Rollback(r.w, c_extensions, i + 1)

\* mutant: the requests are loaded from the last to the first
RECURSIVE Mut_LoadLoop_Reverse(_, _, _)
Mut_LoadLoop_Reverse(w, c_extensions, i) ==
    IF i > Len(c_extensions) THEN [w |-> w, res |-> Ok]
    ELSE LET k == Len(c_extensions) + 1 - i
             r == raw_load_extension(w, c_extensions[k].path, c_extensions[k].entry)
         IN  IF r.res.kind # "Ok" THEN r
             ELSE Mut_LoadLoop_Reverse(r.w, c_extensions, i + 1)

\* the closure of load_extensions: for each request in order, `raw_load_extension(..)?`
RECURSIVE LoadLoop(_, _, _)
LoadLoop(w, c_extensions, i) ==
    IF i > Len(c_extensions) THEN [w |-> w, res |-> Ok]
    ELSE LET r == raw_load_extension(w, c_extensions[i].path, c_extensions[i].entry)
         IN  IF r.res.kind # "Ok" THEN r
             ELSE LoadLoop(r.w, c_extensions, i + 1)

\* the closures handed to with_extension_enabled
ClosureLoadOne(c_path, c_entry) == [kind |-> "one", c |-> <<[path |-> c_path, entry |-> c_entry]>>]
ClosureLoadAll(c_extensions) == [kind |-> "all", c |-> c_extensions]
ClosurePanics == [kind |-> "panics", c |-> <<>>]

\* payload of panic!("intentional panic for test")
TestPayload == <<112>>

\* f(conn)
CallClosure(f, w) ==
    CASE f.kind = "one" -> raw_load_extension(w, f.c[1].path, f.c[1].entry)
      [] f.kind = "all" -> LoadLoop(w, f.c, 1)
      [] f.kind = "panics" -> [w |-> w, res |-> Panic(TestPayload)]

\* mutant: `f(conn)?` before the disable call: an error returns with the toggle left on
Mut_with_extension_enabled_EarlyReturn(w, f) ==
    LET e == enable_load_extension(w, TRUE)
    IN  IF e.res.kind # "Ok" THEN e
        ELSE
        LET r == CallClosure(f, e.w)
            d == enable_load_extension(r.w, FALSE)
        IN  CASE r.res.kind = "Panic" -> [w |-> d.w, res |-> r.res]
              [] r.res.kind = "Err" -> r
              [] OTHER -> IF d.res.kind = "Err"
                          THEN [w |-> d.w, res |-> d.res]
                          ELSE [w |-> d.w, res |-> r.res]

\* mutant: no catch_unwind: a panic of the closure unwinds past the disable call
Mut_with_extension_enabled_NoCatchUnwind(w, f) ==
    LET e == enable_load_extension(w, TRUE)
    IN  IF e.res.kind # "Ok" THEN e
        ELSE
        LET r == CallClosure(f, e.w)
            d == enable_load_extension(r.w, FALSE)
        IN  CASE r.res.kind = "Panic" -> r
              [] r.res.kind = "Err" -> [w |-> d.w, res |-> r.res]
              [] OTHER -> IF d.res.kind = "Err"
                          THEN [w |-> d.w, res |-> d.res]
                          ELSE [w |-> d.w, res |-> r.res]

\* mutant: `disable_result?` before `inner?`: a disable error hides the load error
Mut_with_extension_enabled_DisableFirst(w, f) ==
    LET e == enable_load_extension(w, TRUE)
    IN  IF e.res.kind # "Ok" THEN e
        ELSE
        LET r == CallClosure(f, e.w)
            d == enable_load_extension(r.w, FALSE)
        IN  CASE r.res.kind = "Panic" -> [w |-> d.w, res |-> r.res]
              [] d.res.kind = "Err" -> [w |-> d.w, res |-> d.res]
              [] OTHER -> [w |-> d.w, res |-> r.res]

\* mutant: the enable result is looked at only after the disable call
Mut_with_extension_enabled_AlwaysDisable(w, f) ==
    LET e == enable_load_extension(w, TRUE)
    IN  IF e.res.kind # "Ok"
        THEN [w |-> enable_load_extension(e.w, FALSE).w, res |-> e.res]
        ELSE
        LET r == CallClosure(f, e.w)
            d == enable_load_extension(r.w, FALSE)
        IN  CASE r.res.kind = "Panic" -> [w |-> d.w, res |-> r.res]
              [] r.res.kind = "Err" -> [w |-> d.w, res |-> r.res]
              [] OTHER -> IF d.res.kind = "Err"
                          THEN [w |-> d.w, res |-> d.res]
                          ELSE [w |-> d.w, res |-> r.res]

\* mutant: the disable call is made only when the closure returned Ok
Mut_with_extension_enabled_DisableOnSuccessOnly(w, f) ==
    LET e == enable_load_extension(w, TRUE)
    IN  IF e.res.kind # "Ok" THEN e
        ELSE
        LET r == CallClosure(f, e.w)
            d == enable_load_extension(r.w, FALSE)
        IN  IF r.res.kind # "Ok" THEN r
            ELSE IF d.res.kind = "Err"
                 THEN [w |-> d.w, res |-> d.res]
                 ELSE [w |-> d.w, res |-> r.res]

\* mutant: on the closure's success the result of the disable call is dropped
Mut_with_extension_enabled_DropDisableResult(w, f) ==
    LET e == enable_load_extension(w, TRUE)
    IN  IF e.res.kind # "Ok" THEN e
        ELSE
        LET r == CallClosure(f, e.w)
            d == enable_load_extension(r.w, FALSE)
        IN  [w |-> d.w, res |-> r.res]

\* with_extension_enabled
with_extension_enabled(w, f) ==
    LET e == enable_load_extension(w, TRUE)
    IN  IF e.res.kind # "Ok" THEN e
        ELSE
        LET r == CallClosure(f, e.w)
            d == enable_load_extension(r.w, FALSE)
        IN  CASE r.res.kind = "Panic" -> [w |-> d.w, res |-> r.res]
              [] r.res.kind = "Err" -> [w |-> d.w, res |-> r.res]
              [] OTHER -> IF d.res.kind = "Err"
                          THEN [w |-> d.w, res |-> d.res]
                          ELSE [w |-> d.w, res |-> r.res]

\* mutant: the entry point is converted before the path
Mut_load_extension_EntryFirst(w, path, entry_point) ==
    LET c_path == CStringNew(path)
        c_entry == CStringNew(entry_point.s)
    IN  IF entry_point.some /\ ~c_entry.ok
        THEN [w |-> w, res |-> Err("InvalidEntryPoint", <<>>)]
        ELSE IF ~c_path.ok THEN [w |-> w, res |-> Err("InvalidPath", <<>>)]
        ELSE with_extension_enabled(w,
                 ClosureLoadOne(c_path.c,
                                IF entry_point.some THEN Some(c_entry.c) ELSE None))

\* SqliteLoadExtensionExt::load_extension
load_extension(w, path, entry_point) ==
    LET c_path == CStringNew(path)
        c_entry == CStringNew(entry_point.s)
    IN  IF ~c_path.ok THEN [w |-> w, res |-> Err("InvalidPath", <<>>)]
        ELSE IF entry_point.some /\ ~c_entry.ok
             THEN [w |-> w, res |-> Err("InvalidEntryPoint", <<>>)]
        ELSE with_extension_enabled(w,
                 ClosureLoadOne(c_path.c,
                                IF entry_point.some THEN Some(c_entry.c) ELSE None))

\* mutant: no early return for the empty batch
Mut_load_extensions_NoEmptyCheck(w, extensions) ==
    LET c_extensions == validate_inputs(extensions)
    IN  IF c_extensions.res.kind = "Err" THEN [w |-> w, res |-> c_extensions.res]
        ELSE with_extension_enabled(w, ClosureLoadAll(c_extensions.c))

\* mutant: one enable/disable cycle per request
RECURSIVE PerElement(_, _, _)
PerElement(w, c_extensions, i) ==
    IF i > Len(c_extensions) THEN [w |-> w, res |-> Ok]
    ELSE LET r == with_extension_enabled(w,
                      ClosureLoadOne(c_extensions[i].path, c_extensions[i].entry))
         IN  IF r.res.kind # "Ok" THEN r
             ELSE PerElement(r.w, c_extensions, i + 1)

Mut_load_extensions_PerElement(w, extensions) ==
    IF extensions = <<>> THEN [w |-> w, res |-> Ok]
    ELSE LET c_extensions == validate_inputs(extensions)
         IN  IF c_extensions.res.kind = "Err" THEN [w |-> w, res |-> c_extensions.res]
             ELSE PerElement(w, c_extensions.c, 1)

\* SqliteLoadExtensionExt::load_extensions
load_extensions(w, extensions) ==
    IF extensions = <<>> THEN [w |-> w, res |-> Ok]
    ELSE LET c_extensions == validate_inputs(extensions)
         IN  IF c_extensions.res.kind = "Err" THEN [w |-> w, res |-> c_extensions.res]
             ELSE with_extension_enabled(w, ClosureLoadAll(c_extensions.c))

\* test_with_extension_enabled_panics
test_with_extension_enabled_panics(w) == with_extension_enabled(w, ClosurePanics)

-----------------------------------------------------------------------------
(* wasm_impl: no native call is made *)

wasm_enable_load_extension(w, enabled) == [w |-> w, res |-> Err("UnsupportedPlatform", <<>>)]

wasm_load_extension(w, path, entry_point) ==
    LET c_path == CStringNew(path)
        c_entry == CStringNew(entry_point.s)
    IN  IF ~c_path.ok THEN [w |-> w, res |-> Err("InvalidPath", <<>>)]
        ELSE IF entry_point.some /\ ~c_entry.ok
             THEN [w |-> w, res |-> Err("InvalidEntryPoint", <<>>)]
        ELSE [w |-> w, res |-> Err("UnsupportedPlatform", <<>>)]

\* mutant: the batch is reported unsupported without being validated
Mut_wasm_load_extensions_NoValidation(w, extensions) ==
    IF extensions = <<>> THEN [w |-> w, res |-> Ok]
    ELSE [w |-> w, res |-> Err("UnsupportedPlatform", <<>>)]

wasm_load_extensions(w, extensions) ==
    IF extensions = <<>> THEN [w |-> w, res |-> Ok]
    ELSE LET c_extensions == validate_inputs(extensions)
         IN  IF c_extensions.res.kind = "Err" THEN [w |-> w, res |-> c_extensions.res]
             ELSE [w |-> w, res |-> Err("UnsupportedPlatform", <<>>)]

-----------------------------------------------------------------------------
(* The state machine: a caller making one call after another *)

NoCall ==
    [op |-> "none", conn |-> "none", exts |-> <<>>, enabled |-> FALSE,
     pre |-> NewConnection, toggles |-> <<>>, loads |-> <<>>]
NoResult == [kind |-> "None", err |-> "", msg |-> <<>>]
NoError == [stage |-> "none", tag |-> ""]
NoToggle == [conn |-> "none", enabled |-> FALSE]

\* wasm::register_auto_extension: the threads of the process and the
\* initializers (extern "C" functions) they pass
Threads == 1..MaxThreads
Initializers == {"init_a", "init_b"}
NoInit == "none"

\* the part of a script the call used up
Consumed(script, rest) == SubSeq(script, 1, Len(script) - Len(rest))

IsToggle(x, onoff) == x.fn = "sqlite3_enable_load_extension" /\ x.onoff = onoff
IsLoad(x) == x.fn = "sqlite3_load_extension"

\* the first stage of the call that failed, read off its arguments and its native calls
FailedStage ==
    CASE call.op \in {"load_extension", "load_extensions"}
         /\ validate_inputs(call.exts).res.kind = "Err" -> "validation"
      [] call.op # "none" /\ target = "wasm"
         /\ ~(call.op = "load_extensions" /\ call.exts = <<>>) -> "platform"
      [] trace # <<>> /\ IsToggle(trace[1], 1) /\ trace[1].rc # SQLITE_OK -> "toggle-enable"
      [] \E i \in 1..Len(trace) : IsLoad(trace[i]) /\ trace[i].rc # SQLITE_OK -> "load"
      [] \E i \in 1..Len(trace) : IsToggle(trace[i], 0) /\ trace[i].rc # SQLITE_OK
           -> "toggle-disable"
      [] OTHER -> "none"

Init ==
    /\ target \in Targets
    /\ db = [c \in Conns |-> NewConnection]
    /\ pc = "idle"
    /\ call = NoCall
    /\ trace = <<>>
    /\ result = NoResult
    /\ prev = NoError
    /\ last = NoToggle
    /\ once = "incomplete"
    /\ auto = <<>>
    /\ tpc = [t \in Threads |-> "idle"]
    /\ arg = [t \in Threads |-> NoInit]

\* the call returns (or unwinds): the connection keeps the engine state the
\* call left, the caller holds the outcome
\* mutant: the call's engine state lands on every open connection
Mut_Finish_SharedEngineState(c, op, exts, enabled, tog, lds, out) ==
    /\ Len(out.w.loaded) <= MaxLoaded
    /\ db' = [d \in Conns |-> EngineState(out.w)]
    /\ trace' = out.w.trace
    /\ result' = out.res
    /\ call' = [op |-> op, conn |-> c, exts |-> exts, enabled |-> enabled,
                pre |-> db[c],
                toggles |-> Consumed(tog, out.w.toggles),
                loads |-> Consumed(lds, out.w.loads)]
    /\ pc' = "done"
    /\ UNCHANGED <<target, prev, last>>
    /\ UNCHANGED autoVars

Finish(c, op, exts, enabled, tog, lds, out) ==
    /\ Len(out.w.loaded) <= MaxLoaded
    /\ db' = [db EXCEPT ![c] = EngineState(out.w)]
    /\ trace' = out.w.trace
    /\ result' = out.res
    /\ call' = [op |-> op, conn |-> c, exts |-> exts, enabled |-> enabled,
                pre |-> db[c],
                toggles |-> Consumed(tog, out.w.toggles),
                loads |-> Consumed(lds, out.w.loads)]
    /\ pc' = "done"
    /\ UNCHANGED <<target, prev, last>>
    /\ UNCHANGED autoVars

\* conn.enable_load_extension(enabled)
EnableLoadExtension(c) ==
    /\ pc = "idle"
    /\ \E enabled \in BOOLEAN, tog \in [1..1 -> ToggleResponses] :
         LET w0 == World(db[c], tog, <<>>)
             out == IF target = "native"
                    THEN enable_load_extension(w0, enabled)
                    ELSE wasm_enable_load_extension(w0, enabled)
         IN  Finish(c, "enable_load_extension", <<>>, enabled, tog, <<>>, out)

\* the engine answers once per request that can reach it: one load response
\* for each request that converts to C strings; the loop stops at the first
\* response that is not "ok", so the responses after it are never asked for
\* and are left at "ok"
LoadScripts(extensions) ==
    {s \in [1..Len(validate_inputs(extensions).c) -> LoadResponses] :
        \A i, j \in DOMAIN s : (i < j /\ s[i] # "ok") => s[j] = "ok"}

\* conn.load_extension(path, entry_point), the arguments drawn from reqs
LoadExtensionOf(c, reqs) ==
    /\ pc = "idle"
    /\ \E ext \in reqs, tog \in [1..2 -> ToggleResponses] :
         \E lds \in LoadScripts(<<ext>>) :
           LET w0 == World(db[c], tog, lds)
               out == IF target = "native"
                      THEN load_extension(w0, ext.path, ext.entry)
                      ELSE wasm_load_extension(w0, ext.path, ext.entry)
           IN  Finish(c, "load_extension", <<ext>>, FALSE, tog, lds, out)

LoadExtension(c) == LoadExtensionOf(c, Requests)

\* conn.load_extensions(extensions), the argument drawn from batches
LoadExtensionsOf(c, batches) ==
    /\ pc = "idle"
    /\ \E extensions \in batches, tog \in [1..2 -> ToggleResponses] :
         \E lds \in LoadScripts(extensions) :
           LET w0 == World(db[c], tog, lds)
               out == IF target = "native"
                      THEN load_extensions(w0, extensions)
                      ELSE wasm_load_extensions(w0, extensions)
           IN  Finish(c, "load_extensions", extensions, FALSE, tog, lds, out)

LoadExtensions(c) == LoadExtensionsOf(c, Batches)

\* native_impl::test_with_extension_enabled_panics(&mut conn), caught by the test
TestWithExtensionEnabledPanics(c) ==
    /\ pc = "idle"
    /\ target = "native"
    /\ \E tog \in [1..2 -> ToggleResponses] :
         LET w0 == World(db[c], tog, <<>>)
             out == test_with_extension_enabled_panics(w0)
         IN  Finish(c, "test_with_extension_enabled_panics", <<>>, FALSE, tog, <<>>, out)

\* the requests whose strings convert to C strings (CString::new(..).unwrap())
RawRequests == {r \in Requests : ValidateOne(r).res = Ok}

\* native_impl::raw_load_extension(&mut conn, &c_path, c_entry), called directly
RawLoadExtension(c) ==
    /\ pc = "idle"
    /\ target = "native"
    /\ \E ext \in RawRequests, lds \in [1..1 -> LoadResponses] :
         LET w0 == World(db[c], <<>>, lds)
             cs == ValidateOne(ext).c[1]
             out == raw_load_extension(w0, cs.path, cs.entry)
         IN  Finish(c, "raw_load_extension", <<ext>>, FALSE, <<>>, lds, out)

\* the caller has looked at the outcome and goes on to its next call
Return ==
    /\ pc = "done"
    /\ pc' = "idle"
    /\ prev' = IF result.kind = "Err" /\ call.op \in {"load_extension", "load_extensions"}
               THEN [stage |-> FailedStage, tag |-> result.err] ELSE prev
    /\ last' = IF call.op = "enable_load_extension" /\ result = Ok
               THEN [conn |-> call.conn, enabled |-> call.enabled] ELSE NoToggle
    /\ call' = NoCall
    /\ trace' = <<>>
    /\ result' = NoResult
    /\ UNCHANGED <<target, db>>
    /\ UNCHANGED autoVars

\* the connection the caller of Spec works on
Callers == {"conn1"}

Next ==
    \/ \E c \in Callers : EnableLoadExtension(c)
    \/ \E c \in Callers : LoadExtension(c)
    \/ \E c \in Callers : LoadExtensions(c)
    \/ \E c \in Callers : TestWithExtensionEnabledPanics(c)
    \/ \E c \in Callers : RawLoadExtension(c)
    \/ Return

Spec == Init /\ [][Next]_vars

-----------------------------------------------------------------------------
(* Two connections used in turn, as in test_multiple_connections_are_independent *)

\* the caller drops the outcome unread (let _ = conn.load_extension(..)) and goes on
Discard ==
    /\ pc = "done"
    /\ pc' = "idle"
    /\ call' = NoCall
    /\ trace' = <<>>
    /\ result' = NoResult
    /\ UNCHANGED <<target, db, prev, last>>
    /\ UNCHANGED autoVars

\* what the calls on the two connections are given
ConnRequests == {Req(PathA, None)}
ConnBatches == {<<Req(PathB, Some(EntryInit))>>}

NextConns ==
    \/ \E c \in Conns : EnableLoadExtension(c)
    \/ \E c \in Conns : LoadExtensionOf(c, ConnRequests)
    \/ \E c \in Conns : LoadExtensionsOf(c, ConnBatches)
    \/ Discard

SpecConns == Init /\ [][NextConns]_vars

-----------------------------------------------------------------------------
(* wasm::register_auto_extension, called from any thread of the process *)

\* what sqlite3_auto_extension may return; the caller drops it (let _ =)
AutoResponses == {SQLITE_OK, SQLITE_ERROR}

\* register_auto_extension(init) is entered
RegisterAutoExtension(t) ==
    /\ target = "wasm"
    /\ tpc[t] = "idle"
    /\ \E init \in Initializers : arg' = [arg EXCEPT ![t] = init]
    /\ tpc' = [tpc EXCEPT ![t] = "get_or_init"]
    /\ UNCHANGED <<once, auto>>
    /\ UNCHANGED callVars

\* INIT.get_or_init: the cell is already set, the closure is not run
GetOrInitSet(t) ==
    /\ tpc[t] = "get_or_init"
    /\ once = "complete"
    /\ tpc' = [tpc EXCEPT ![t] = "returned"]
    /\ UNCHANGED <<once, auto, arg>>
    /\ UNCHANGED callVars

\* INIT.get_or_init: the cell is unset and no thread is initializing it; this
\* thread runs the closure
GetOrInitRun(t) ==
    /\ tpc[t] = "get_or_init"
    /\ once = "incomplete"
    /\ once' = "running"
    /\ tpc' = [tpc EXCEPT ![t] = "closure"]
    /\ UNCHANGED <<auto, arg>>
    /\ UNCHANGED callVars

\* mutant: the thread does not wait for the initializing thread
Mut_GetOrInitWait_NoWait(t) ==
    /\ tpc[t] = "get_or_init"
    /\ once = "running"
    /\ tpc' = [tpc EXCEPT ![t] = "returned"]
    /\ UNCHANGED <<once, auto, arg>>
    /\ UNCHANGED callVars

\* INIT.get_or_init: another thread is running the closure; this thread blocks
GetOrInitWait(t) ==
    /\ tpc[t] = "get_or_init"
    /\ once = "running"
    /\ tpc' = [tpc EXCEPT ![t] = "blocked"]
    /\ UNCHANGED <<once, auto, arg>>
    /\ UNCHANGED callVars

\* the closure calls sqlite3_auto_extension(Some(init)) with the init it captured
AutoExtensionCall(t) ==
    /\ tpc[t] = "closure"
    /\ auto' = Append(auto, [init |-> arg[t], returned |-> FALSE, rc |-> SQLITE_OK])
    /\ tpc' = [tpc EXCEPT ![t] = "in_ffi"]
    /\ UNCHANGED <<once, arg>>
    /\ UNCHANGED callVars

\* sqlite3_auto_extension returns, its status is dropped, the closure ends
\* and the cell is set
AutoExtensionReturn(t) ==
    /\ tpc[t] = "in_ffi"
    /\ \E rc \in AutoResponses :
         auto' = [auto EXCEPT ![Len(auto)] = [@ EXCEPT !.returned = TRUE, !.rc = rc]]
    /\ once' = "complete"
    /\ tpc' = [tpc EXCEPT ![t] = "returned"]
    /\ UNCHANGED arg
    /\ UNCHANGED callVars

\* a blocked thread is woken once the cell is set
GetOrInitWake(t) ==
    /\ tpc[t] = "blocked"
    /\ once = "complete"
    /\ tpc' = [tpc EXCEPT ![t] = "returned"]
    /\ UNCHANGED <<once, auto, arg>>
    /\ UNCHANGED callVars

\* register_auto_extension has returned; the thread goes on
RegisterReturn(t) ==
    /\ tpc[t] = "returned"
    /\ tpc' = [tpc EXCEPT ![t] = "idle"]
    /\ arg' = [arg EXCEPT ![t] = NoInit]
    /\ UNCHANGED <<once, auto>>
    /\ UNCHANGED callVars

NextAuto ==
    \/ \E t \in Threads : RegisterAutoExtension(t)
    \/ \E t \in Threads : GetOrInitSet(t)
    \/ \E t \in Threads : GetOrInitRun(t)
    \/ \E t \in Threads : GetOrInitWait(t)
    \/ \E t \in Threads : AutoExtensionCall(t)
    \/ \E t \in Threads : AutoExtensionReturn(t)
    \/ \E t \in Threads : GetOrInitWake(t)
    \/ \E t \in Threads : RegisterReturn(t)

SpecAuto == Init /\ [][NextAuto]_vars

-----------------------------------------------------------------------------
(* What the claims speak of, read off the history of the call that has just ended *)

Done == pc = "done"
Native == target = "native"
LoadOps == {"load_extension", "load_extensions"}

\* an embedded NUL
HasNul(s) == \E i \in 1..Len(s) : s[i] = 0
BadPath(r) == HasNul(r.path)
BadEntry(r) == r.entry.some /\ HasNul(r.entry.s)
Invalid(r) == BadPath(r) \/ BadEntry(r)
InvalidAt == {i \in 1..Len(call.exts) : Invalid(call.exts[i])}
\* the request's path as the C string the engine is handed
CPath(r) == Append(r.path, 0)

\* positions in the trace of the toggle calls and of the load calls
ToggleCalls(onoff) == {i \in 1..Len(trace) : IsToggle(trace[i], onoff)}
LoadCalls == {i \in 1..Len(trace) : IsLoad(trace[i])}
FailedLoadCalls == {i \in LoadCalls : trace[i].rc # SQLITE_OK}
\* the load call at trace position i is for this element of the batch (1-based)
ElementOf(i) == Cardinality({j \in LoadCalls : j <= i})

EnableSucceeded ==
    trace # <<>> /\ IsToggle(trace[1], 1) /\ trace[1].rc = SQLITE_OK
EnableFailed ==
    trace # <<>> /\ IsToggle(trace[1], 1) /\ trace[1].rc # SQLITE_OK
DisableFailed == \E i \in ToggleCalls(0) : trace[i].rc # SQLITE_OK
DisableSucceeded ==
    ToggleCalls(0) # {} /\ \A i \in ToggleCalls(0) : trace[i].rc = SQLITE_OK

\* the load step panicked: a load response used up by the call was a panic, or
\* the closure was the one that always panics
Panicked ==
    \/ \E i \in 1..Len(call.loads) : call.loads[i] = "panic"
    \/ call.op = "test_with_extension_enabled_panics" /\ EnableSucceeded
PanicPayload ==
    IF call.op = "test_with_extension_enabled_panics" THEN TestPayload
    ELSE CPath(call.exts[Len(call.loads)])

\* the text a failed native call at trace position i reported: the message it
\* wrote, else the text the sqlite3_errmsg call right after it returned
ErrmsgFollows(i) == i < Len(trace) /\ trace[i + 1].fn = "sqlite3_errmsg"
ReportedText(i) ==
    IF trace[i].out # NULL THEN ToStringLossy(trace[i].out)
    ELSE ToStringLossy(trace[i + 1].out)

-----------------------------------------------------------------------------
(* C1 *)

-----------------------------------------------------------------------------
(* C2 *)

\* C2: when the closure run by with_extension_enabled panics after a
\* successful enable, the disable call is the last native call made, its
\* outcome is discarded, and the call unwinds with that same panic: it hands
\* back neither Ok nor an error.
C2_PanicPropagatesAfterDisable ==
    (Done /\ Native /\ EnableSucceeded /\ Panicked)
        => /\ result = Panic(PanicPayload)
           /\ Cardinality(ToggleCalls(0)) = 1
           /\ \A i \in ToggleCalls(0) : \A j \in LoadCalls : j < i
           /\ \A i \in ToggleCalls(0) :
                i = Len(trace) \/ (i = Len(trace) - 1 /\ ErrmsgFollows(i))

\* reached: the closure panicked, the disable call failed, and the panic went on
C2_Witness ==
    /\ Done /\ Native /\ EnableSucceeded /\ Panicked
    /\ DisableFailed
    /\ result.kind = "Panic"

-----------------------------------------------------------------------------
(* C3 *)

\* C3: load_extension or load_extensions given a path or an entry point with
\* an embedded NUL, at any position of the batch, returns the validation error
\* having made no native call; the flag and the loaded extensions are as before.
C3_ValidateBeforeAct ==
    (Done /\ call.op \in LoadOps /\ InvalidAt # {})
        => /\ result.kind = "Err"
           /\ result.err \in {"InvalidPath", "InvalidEntryPoint"}
           /\ trace = <<>>
           /\ db[call.conn] = call.pre

\* reached: the enabled flag survives a batch whose second request is invalid
C3_Witness ==
    /\ Done /\ Native /\ call.op = "load_extensions"
    /\ InvalidAt = {2}
    /\ call.pre.flag = TRUE
    /\ trace = <<>>
    /\ result.kind = "Err"

-----------------------------------------------------------------------------
(* C4 *)

\* C4: load_extensions with an empty batch returns Ok(()) having made no
\* native call, and leaves the flag as it was, on native and on WASM.
C4_EmptyBatchTouchesNothing ==
    (Done /\ call.op = "load_extensions" /\ call.exts = <<>>)
        => /\ result = Ok
           /\ trace = <<>>
           /\ db[call.conn] = call.pre

\* reached: an empty batch on a connection whose flag is enabled
C4_Witness ==
    /\ Done /\ call.op = "load_extensions" /\ call.exts = <<>>
    /\ call.pre.flag = TRUE
    /\ db[call.conn].flag = TRUE
    /\ result = Ok

-----------------------------------------------------------------------------
(* C5 *)

\* C5: in load_extensions, once the load call of an element fails, no load
\* call is made for any later element, the load calls made are those of the
\* elements up to it, in order, and the error returned is the LoadFailed of
\* that element.
C5_StopAtFirstFailure ==
    (Done /\ Native /\ call.op = "load_extensions")
        => \A i \in FailedLoadCalls :
             /\ \A j \in LoadCalls : j <= i
             /\ \A j \in LoadCalls : trace[j].file = CPath(call.exts[ElementOf(j)])
             /\ result = Err("LoadFailed", ReportedText(i))

\* reached: the first of two elements fails and the second is never tried
C5_Witness ==
    /\ Done /\ Native /\ call.op = "load_extensions"
    /\ Len(call.exts) = 2
    /\ \E i \in FailedLoadCalls : ElementOf(i) = 1
    /\ Cardinality(LoadCalls) = 1
    /\ result.err = "LoadFailed"

-----------------------------------------------------------------------------
(* C6 *)

\* the validation error of the first invalid request: its path before its entry point
FirstInvalidError ==
    LET k == CHOOSE i \in InvalidAt : \A j \in InvalidAt : i <= j
    IN  IF BadPath(call.exts[k]) THEN Err("InvalidPath", <<>>)
        ELSE Err("InvalidEntryPoint", <<>>)

\* C6: the one error a batch call returns is, in this order of priority, that
\* of the first invalid input, else the enable failure, else the first load
\* failure, else the disable failure: a load error is returned also when the
\* disable fails after it, and a disable error when every load succeeded.
C6_ErrorPriority ==
    (Done /\ Native /\ call.op \in LoadOps /\ ~Panicked)
        => CASE InvalidAt # {} -> result = FirstInvalidError
             [] EnableFailed ->
                  ErrmsgFollows(1) /\ result = Err("EnableFailed", ReportedText(1))
             [] FailedLoadCalls # {} ->
                  \E i \in FailedLoadCalls :
                     /\ \A j \in FailedLoadCalls : i <= j
                     /\ result = Err("LoadFailed", ReportedText(i))
             [] DisableFailed ->
                  \E i \in ToggleCalls(0) :
                     ErrmsgFollows(i) /\ result = Err("EnableFailed", ReportedText(i))
             [] OTHER -> result = Ok

\* reached: a load fails, the disable after it fails too, the load error is returned
C6_Witness ==
    /\ Done /\ Native /\ call.op = "load_extensions"
    /\ FailedLoadCalls # {}
    /\ DisableFailed
    /\ result.err = "LoadFailed"

-----------------------------------------------------------------------------
(* C7 *)

\* C7: when the enable call of load_extension or load_extensions fails, the
\* call returns that toggle error at once: no load call and no disable call
\* is made.
C7_EnableFailureReturnsAtOnce ==
    (Done /\ Native /\ call.op \in LoadOps /\ EnableFailed)
        => /\ Len(trace) = 2 /\ ErrmsgFollows(1)
           /\ LoadCalls = {}
           /\ ToggleCalls(0) = {}
           /\ result = Err("EnableFailed", ReportedText(1))

\* reached: the enable call of a two-element batch fails
C7_Witness ==
    /\ Done /\ Native /\ call.op = "load_extensions"
    /\ Len(call.exts) = 2
    /\ EnableFailed
    /\ result.err = "EnableFailed"

-----------------------------------------------------------------------------
(* C8 *)

\* C8: for a non-empty valid batch, load_extensions makes exactly one enable
\* call, as its first native call, and, when that call succeeds, exactly one
\* disable call; every load call comes after the enable call and before the
\* disable call.
C8_OneEnableOneDisable ==
    (Done /\ Native /\ call.op = "load_extensions"
          /\ call.exts # <<>> /\ InvalidAt = {})
        => /\ ToggleCalls(1) = {1}
           /\ EnableSucceeded => Cardinality(ToggleCalls(0)) = 1
           /\ \A j \in LoadCalls :
                 /\ 1 < j
                 /\ \A i \in ToggleCalls(0) : j < i

\* reached: two loads between the enable call and the disable call
C8_Witness ==
    /\ Done /\ Native /\ call.op = "load_extensions"
    /\ Cardinality(LoadCalls) = 2
    /\ FailedLoadCalls = {}
    /\ Cardinality(ToggleCalls(1)) = 1
    /\ Cardinality(ToggleCalls(0)) = 1
    /\ result = Ok

-----------------------------------------------------------------------------
(* C9 *)

\* the call that has just ended, made again through the other entry point on
\* the same connection state with the same engine responses
AsBatch ==
    LET w0 == World(call.pre, call.toggles, call.loads)
    IN  IF Native THEN load_extensions(w0, call.exts)
        ELSE wasm_load_extensions(w0, call.exts)
AsSingle ==
    LET w0 == World(call.pre, call.toggles, call.loads)
    IN  IF Native THEN load_extension(w0, call.exts[1].path, call.exts[1].entry)
        ELSE wasm_load_extension(w0, call.exts[1].path, call.exts[1].entry)
SameOutcome(o) ==
    /\ o.w.trace = trace
    /\ o.res = result
    /\ EngineState(o.w) = db[call.conn]

\* C9: load_extension(path, entry_point) and load_extensions of the
\* one-element batch [(path, entry_point)] make the same native calls with the
\* same arguments, return the same result and leave the same engine state,
\* for every input and every sequence of engine responses.
C9_SingleIsOneElementBatch ==
    /\ (Done /\ call.op = "load_extension") => SameOutcome(AsBatch)
    /\ (Done /\ call.op = "load_extensions" /\ Len(call.exts) = 1) => SameOutcome(AsSingle)

\* reached: a load_extension call whose load failed with an engine message
C9_Witness ==
    /\ Done /\ Native /\ call.op = "load_extension"
    /\ \E i \in FailedLoadCalls : trace[i].out # NULL
    /\ result.err = "LoadFailed"
    /\ SameOutcome(AsBatch)

-----------------------------------------------------------------------------
(* C10 *)

Stages == {"toggle-enable", "toggle-disable", "load", "validation"}

\* C10 as claimed: the returned error is tagged with the stage that failed
\* among toggle-enable, toggle-disable, load and validation: two errors a
\* caller gets from failures at different stages carry different tags.
C10_StagesTaggedApart ==
    (Done /\ call.op \in LoadOps /\ result.kind = "Err"
          /\ FailedStage \in Stages /\ prev.stage \in Stages
          /\ FailedStage # prev.stage)
        => result.err # prev.tag

\* the stage as far as the tag tells it: both toggle calls share EnableFailed
StageClass(stage) ==
    IF stage \in {"toggle-enable", "toggle-disable"} THEN "toggle" ELSE stage
TagsOf(stage) ==
    CASE stage \in {"toggle-enable", "toggle-disable"} -> {"EnableFailed"}
      [] stage = "load" -> {"LoadFailed"}
      [] stage = "validation" -> {"InvalidPath", "InvalidEntryPoint"}
      [] OTHER -> {}

\* C10 as amended: the returned error is tagged EnableFailed when a toggle
\* call failed, the enable and the disable alike, LoadFailed when a load
\* failed, InvalidPath or InvalidEntryPoint when validation failed: errors
\* from failures at two of the stages toggle, load and validation carry
\* different tags.
C10_StageClassesTaggedApart ==
    (Done /\ call.op \in LoadOps /\ result.kind = "Err" /\ FailedStage \in Stages)
        => /\ result.err \in TagsOf(FailedStage)
           /\ (prev.stage \in Stages /\ StageClass(FailedStage) # StageClass(prev.stage))
                 => result.err # prev.tag

\* reached: a disable failure after the caller was handed a load failure
C10_Witness ==
    /\ Done /\ call.op \in LoadOps
    /\ FailedStage = "toggle-disable" /\ result.err = "EnableFailed"
    /\ prev.stage = "load" /\ prev.tag = "LoadFailed"

-----------------------------------------------------------------------------
(* C11 *)

ErrmsgCalls == {i \in 1..Len(trace) : trace[i].fn = "sqlite3_errmsg"}

\* C11: enable_load_extension(enabled) calls the engine's set-flag primitive
\* exactly once, with 1 for true and 0 for false; it returns Ok(()) exactly
\* when the engine returns SQLITE_OK and otherwise EnableFailed with the
\* engine's last-error text; sqlite3_errmsg is called only when the toggle
\* failed, and no load call is made.
C11_GuardedToggle ==
    (Done /\ Native /\ call.op = "enable_load_extension")
        => /\ ToggleCalls(IF call.enabled THEN 1 ELSE 0) = {1}
           /\ ToggleCalls(IF call.enabled THEN 0 ELSE 1) = {}
           /\ LoadCalls = {}
           /\ (result = Ok) <=> (trace[1].rc = SQLITE_OK)
           /\ trace[1].rc = SQLITE_OK => Len(trace) = 1
           /\ trace[1].rc # SQLITE_OK =>
                 /\ Len(trace) = 2 /\ ErrmsgFollows(1)
                 /\ result = Err("EnableFailed", ToStringLossy(db[call.conn].errmsg))
                 /\ result = Err("EnableFailed", ReportedText(1))

\* reached: enable_load_extension(false) refused by the engine
C11_Witness ==
    /\ Done /\ Native /\ call.op = "enable_load_extension"
    /\ call.enabled = FALSE
    /\ trace[1].rc # SQLITE_OK
    /\ ErrmsgCalls = {2}
    /\ result.err = "EnableFailed"

-----------------------------------------------------------------------------
(* C12 *)

\* the engine accepted every toggle this call asked of it
EngineToleratesToggles == \A i \in 1..Len(call.toggles) : call.toggles[i] = SQLITE_OK

\* this call is enable_load_extension, made right after a successful
\* enable_load_extension on the same connection
ToggleAfterToggle ==
    /\ Done /\ Native /\ call.op = "enable_load_extension"
    /\ last # NoToggle /\ last.conn = call.conn

-----------------------------------------------------------------------------
(* C13 *)

-----------------------------------------------------------------------------
(* C14 *)

Wasm == target = "wasm"

\* C14: on the WASM target no operation makes a native call or changes the
\* connection; enable_load_extension returns UnsupportedPlatform for true and
\* for false; load_extension and a non-empty load_extensions return the
\* validation error of the first invalid input when there is one, and
\* UnsupportedPlatform only when every input is valid.
C14_WasmValidatesThenUnsupported ==
    (Done /\ Wasm)
        => /\ trace = <<>>
           /\ db[call.conn] = call.pre
           /\ call.op = "enable_load_extension"
                 => result = Err("UnsupportedPlatform", <<>>)
           /\ (call.op \in LoadOps /\ call.exts # <<>> /\ InvalidAt # {})
                 => /\ result = FirstInvalidError
                    /\ result.err \in {"InvalidPath", "InvalidEntryPoint"}
           /\ (call.op \in LoadOps /\ call.exts # <<>> /\ InvalidAt = {})
                 => result = Err("UnsupportedPlatform", <<>>)
           /\ result.err = "UnsupportedPlatform"
                 => (call.op \in LoadOps => InvalidAt = {})

\* reached: on WASM a batch whose second request has an embedded NUL in its
\* entry point is refused with InvalidEntryPoint
C14_Witness ==
    /\ Done /\ Wasm /\ call.op = "load_extensions"
    /\ InvalidAt = {2}
    /\ ~BadPath(call.exts[2])
    /\ result = Err("InvalidEntryPoint", <<>>)
    /\ trace = <<>>

-----------------------------------------------------------------------------
(* C15 *)

Returned(t) == tpc[t] = "returned"

\* C15: however many calls of register_auto_extension are made, from one
\* thread or several, sqlite3_auto_extension is invoked at most once, and a
\* call has returned only when that one invocation has been made and has
\* itself returned.
C15_RegistersAtMostOnce ==
    /\ Len(auto) <= 1
    /\ \A t \in Threads : Returned(t) => (Len(auto) = 1 /\ auto[1].returned)

\* reached: one thread's call has returned after invoking the primitive while
\* another thread, which entered during the invocation, is still blocked
C15_Witness ==
    \E t, u \in Threads :
        /\ Returned(t) /\ tpc[u] = "blocked"
        /\ Len(auto) = 1 /\ auto[1].init = arg[t] /\ auto[1].returned

-----------------------------------------------------------------------------
(* C16 *)

\* the initializers handed to sqlite3_auto_extension so far
Registered == {auto[i].init : i \in 1..Len(auto)}

\* C16: once a call of register_auto_extension(init) has returned, init has
\* been handed to sqlite3_auto_extension.
C16_EveryInitializerRegistered ==
    \A t \in Threads : Returned(t) => arg[t] \in Registered

-----------------------------------------------------------------------------
(* C17 *)

\* one load call was made for every request of the call, and each succeeded
EveryLoadSucceeded ==
    Cardinality(LoadCalls) = Len(call.exts) /\ FailedLoadCalls = {}

\* C17: load_extension and a non-empty load_extensions return Ok(()) exactly
\* when validation passed, the enable call succeeded, every load call
\* succeeded and the disable call succeeded; when only the final disable call
\* failed the operation returns that error.
C17_OkIffEveryStageSucceeded ==
    (Done /\ Native /\ call.op \in LoadOps /\ call.exts # <<>>)
        => /\ (result = Ok) <=>
                 /\ InvalidAt = {}
                 /\ EnableSucceeded
                 /\ EveryLoadSucceeded
                 /\ DisableSucceeded
           /\ (InvalidAt = {} /\ EnableSucceeded /\ EveryLoadSucceeded /\ DisableFailed)
                 => /\ result.kind = "Err" /\ result.err = "EnableFailed"
                    /\ result.msg = ReportedText(Len(trace) - 1)

\* reached: both requests of a batch were loaded and only the disable call
\* failed; the call returns the disable error
C17_Witness ==
    /\ Done /\ Native /\ call.op = "load_extensions"
    /\ Len(call.exts) = MaxBatch
    /\ EnableSucceeded /\ EveryLoadSucceeded /\ DisableFailed
    /\ result.kind = "Err" /\ result.err = "EnableFailed"
    /\ Len(db[call.conn].loaded) = Len(call.pre.loaded) + Len(call.exts)

-----------------------------------------------------------------------------
(* C18 *)

FreeCalls == {i \in 1..Len(trace) : trace[i].fn = "sqlite3_free"}
\* the failed load calls for which the engine wrote a message
FailedWithMessage == {i \in FailedLoadCalls : trace[i].out # NULL}

\* C18: the message buffer the engine allocated for a failed load is handed
\* to sqlite3_free exactly once, right after that load call; nothing is
\* freed for a failed load without a message or for a successful load, and
\* no buffer is freed twice.
C18_MessageFreedExactlyOnce ==
    (Done /\ Native)
        => /\ \A i \in FailedWithMessage :
                 /\ i < Len(trace) /\ (i + 1) \in FreeCalls
                 /\ trace[i + 1].out = trace[i].out
           /\ \A j \in FreeCalls :
                 /\ j > 1 /\ (j - 1) \in FailedWithMessage
                 /\ trace[j].out = trace[j - 1].out
           /\ Cardinality(FreeCalls) = Cardinality(FailedWithMessage)
           /\ \A i \in LoadCalls \ FailedWithMessage :
                 i < Len(trace) => (i + 1) \notin FreeCalls

\* reached: in one batch a first load succeeded and nothing was freed for
\* it, the second failed with a message, which was freed once
C18_Witness ==
    /\ Done /\ Native /\ call.op = "load_extensions"
    /\ Cardinality(LoadCalls) = MaxBatch
    /\ Cardinality(FailedWithMessage) = 1
    /\ Cardinality(FreeCalls) = 1
    /\ \E j \in FreeCalls : trace[j].out = TextCannotOpen(trace[j - 1].file)

-----------------------------------------------------------------------------
(* C19 *)

\* C19: when a load call fails, the call returns LoadFailed carrying the
\* text the engine wrote into the error out-parameter when it wrote one and
\* otherwise the connection's last-error text (either converted with
\* to_string_lossy); sqlite3_errmsg is called after a failed load exactly
\* when the out-parameter was left null.
C19_LoadFailedMessageSource ==
    (Done /\ Native /\ call.op \in LoadOps)
        => \A i \in FailedLoadCalls :
              /\ result.kind = "Err" /\ result.err = "LoadFailed"
              /\ trace[i].out # NULL
                    => /\ result.msg = ToStringLossy(trace[i].out)
                       /\ ~ErrmsgFollows(i)
              /\ trace[i].out = NULL
                    => /\ ErrmsgFollows(i)
                       /\ trace[i + 1].out = TextGeneric
                       /\ result.msg = ToStringLossy(TextGeneric)

\* reached: a load failed without a message; the call reports the
\* connection's last-error text, fetched right after the load call
C19_Witness ==
    /\ Done /\ Native /\ call.op = "load_extension"
    /\ \E i \in FailedLoadCalls :
          /\ trace[i].out = NULL
          /\ ErrmsgFollows(i)
          /\ result = Err("LoadFailed", ToStringLossy(trace[i + 1].out))

-----------------------------------------------------------------------------
(* C20 *)

\* the request's entry point as the pointer the engine is handed
CEntry(r) == IF r.entry.some THEN Append(r.entry.s, 0) ELSE NULL

\* C20: within one load_extensions call the load calls are made in batch
\* order, at most one per request; the call for a request is made only after
\* the calls for all earlier requests returned SQLITE_OK; each call passes
\* its request's own path and its own entry point, null when none was given.
C20_LoadsInBatchOrder ==
    (Done /\ Native /\ call.op = "load_extensions")
        => /\ Cardinality(LoadCalls) <= Len(call.exts)
           /\ \A i \in LoadCalls :
                 /\ trace[i].file = CPath(call.exts[ElementOf(i)])
                 /\ trace[i].entry = CEntry(call.exts[ElementOf(i)])
                 /\ \A j \in LoadCalls : j < i => trace[j].rc = SQLITE_OK

\* reached: a batch of a request without entry point and a request with
\* one, both loaded, in that order
C20_Witness ==
    /\ Done /\ Native /\ call.op = "load_extensions"
    /\ Len(call.exts) >= 2
    /\ ~call.exts[1].entry.some /\ call.exts[2].entry.some
    /\ call.exts[1].path # call.exts[2].path
    /\ \E i, j \in LoadCalls :
          /\ i < j
          /\ trace[i].entry = NULL /\ trace[i].file = CPath(call.exts[1])
          /\ trace[j].entry = Append(EntryInit, 0) /\ trace[j].file = CPath(call.exts[2])
          /\ trace[j].rc = SQLITE_OK

-----------------------------------------------------------------------------
(* C21 *)

\* the first invalid request of the call, in sequence order
FirstInvalid == CHOOSE i \in InvalidAt : \A j \in InvalidAt : i <= j

\* C21: on either target, the validation error a call returns is that of the
\* first invalid request in sequence order, whatever follows it, and within
\* that request the path is judged before the entry point: InvalidPath when
\* its path is invalid (also when its entry point is invalid too), otherwise
\* InvalidEntryPoint.
C21_FirstInvalidInputDecides ==
    (Done /\ call.op \in LoadOps /\ InvalidAt # {})
        => /\ result.kind = "Err" /\ result.msg = <<>>
           /\ BadPath(call.exts[FirstInvalid]) => result.err = "InvalidPath"
           /\ (BadPath(call.exts[FirstInvalid]) /\ BadEntry(call.exts[FirstInvalid]))
                 => result.err # "InvalidEntryPoint"
           /\ ~BadPath(call.exts[FirstInvalid]) => result.err = "InvalidEntryPoint"
           /\ (Native /\ call.op \in LoadOps) => trace = <<>>

\* reached: a batch whose first request has an invalid entry point and whose
\* second request has an invalid path (and entry point) yields InvalidEntryPoint
C21_Witness ==
    /\ Done /\ Native /\ call.op = "load_extensions"
    /\ InvalidAt = {1, 2}
    /\ ~BadPath(call.exts[1]) /\ BadEntry(call.exts[1])
    /\ BadPath(call.exts[2]) /\ BadEntry(call.exts[2])
    /\ result = Err("InvalidEntryPoint", <<>>)

-----------------------------------------------------------------------------
(* C22 *)

\* a direct call of raw_load_extension that returned to its caller
RawReturned ==
    Done /\ Native /\ call.op = "raw_load_extension" /\ result.kind # "Panic"

\* C22: a call of raw_load_extension that returns has made no toggle call
\* and exactly one load call, for the strings it was given, and has left the
\* connection's extension-loading flag as it found it, whether the load
\* succeeded or failed; on a connection whose flag is disabled it returns
\* LoadFailed and registers nothing.
C22_RawLoadDoesNotToggle ==
    RawReturned
        => /\ ToggleCalls(0) = {} /\ ToggleCalls(1) = {}
           /\ LoadCalls = {1}
           /\ trace[1].file = CPath(call.exts[1])
           /\ trace[1].entry = CEntry(call.exts[1])
           /\ db[call.conn].flag = call.pre.flag
           /\ (result = Ok) <=> (trace[1].rc = SQLITE_OK)
           /\ ~call.pre.flag
                 => /\ result.kind = "Err" /\ result.err = "LoadFailed"
                    /\ db[call.conn].loaded = call.pre.loaded

\* reached: on a connection with the flag disabled the direct call is
\* refused with the engine's message and the flag is still disabled
C22_Witness ==
    /\ RawReturned
    /\ ~call.pre.flag /\ ~db[call.conn].flag
    /\ call.loads = <<"ok">>
    /\ result = Err("LoadFailed", ToStringLossy(TextNotAuthorized))

-----------------------------------------------------------------------------
(* C23 *)

AllToggleCalls == ToggleCalls(0) \cup ToggleCalls(1)
LastToggleCall == CHOOSE i \in AllToggleCalls : \A j \in AllToggleCalls : j <= i

\* C23: in every load_extension or load_extensions call whose enable call
\* succeeded, the last toggle call the operation makes is a disable (flag 0)
\* and no load call follows it, whether the load step succeeded, failed or
\* panicked and whether the disable call itself succeeded or failed.
C23_DisableIsLastToggle ==
    (Done /\ Native /\ call.op \in LoadOps /\ EnableSucceeded)
        => /\ IsToggle(trace[LastToggleCall], 0)
           /\ LastToggleCall > 1
           /\ \A i \in LoadCalls : i < LastToggleCall
           /\ \A i \in (LastToggleCall + 1)..Len(trace) : trace[i].fn = "sqlite3_errmsg"

\* reached: the load step of a batch panicked at its second request, the
\* disable call was made after the first request's load and itself failed
C23_Witness ==
    /\ Done /\ Native /\ call.op = "load_extensions"
    /\ EnableSucceeded
    /\ result.kind = "Panic"
    /\ LoadCalls # {}
    /\ DisableFailed
    /\ IsToggle(trace[LastToggleCall], 0)
    /\ db[call.conn].flag

-----------------------------------------------------------------------------
(* C24 *)

\* what the engine registers for the first k requests of the call, in order
RegisteredFor(k) ==
    [j \in 1..k |-> [file |-> CPath(call.exts[j]), entry |-> CEntry(call.exts[j])]]
\* what this call added to the connection's loaded extensions
AddedByCall(k) == db[call.conn].loaded = call.pre.loaded \o RegisteredFor(k)

\* C24: loads are not rolled back.  When load_extensions returns the load
\* error of a request, exactly the requests before it have been registered
\* with the engine by this call; when it returns the disable error, every
\* request of the batch has been registered although the call failed.
C24_LoadsAreNotRolledBack ==
    (Done /\ Native /\ call.op = "load_extensions" /\ result.kind = "Err")
        => /\ result.err = "LoadFailed"
                 => \E i \in FailedLoadCalls : AddedByCall(ElementOf(i) - 1)
           /\ (result.err = "EnableFailed" /\ EnableSucceeded)
                 => /\ DisableFailed
                    /\ AddedByCall(Len(call.exts))

\* reached: the last request of a full batch failed to load; the requests
\* before it stay registered on the connection
C24_Witness ==
    /\ Done /\ Native /\ call.op = "load_extensions"
    /\ Len(call.exts) = MaxBatch
    /\ result.kind = "Err" /\ result.err = "LoadFailed"
    /\ \E i \in FailedLoadCalls : ElementOf(i) = MaxBatch
    /\ Len(db[call.conn].loaded) = Len(call.pre.loaded) + MaxBatch - 1
    /\ db[call.conn].loaded # call.pre.loaded

====
